---- MODULE Spec2Model ----
(***************************************************************************)
(* Navis hex telemetry decoder and historical aggregation, modelled from   *)
(* navis_historical_parser.py and test_weather_stations.py.                *)
(*                                                                         *)
(* Strings are sequences of one-character strings.  Python ints are kept   *)
(* as two's-complement pairs hi * 2^16 + lo (0 <= lo < 2^16, hi any sign), *)
(* Python floats as exact decimals int + nano * 10^-9 (0 <= nano < 10^9).  *)
(* None is the empty sequence and a returned object x is <<x>>.            *)
(***************************************************************************)
EXTENDS Integers, Sequences, FiniteSets, TLC

VARIABLES pc, hex_data, decoded, raw_data, raised, data_points, stats, hist,
          display, results, passed, exit_code, flow, sent

vars == <<pc, hex_data, decoded, raw_data, raised, data_points, stats, hist,
          display, results, passed, exit_code, flow, sent>>

(***************************************************************************)
(* Option values: Python's None and a returned object.                     *)
(***************************************************************************)
None == <<>>

Some(x) == <<x>>

(***************************************************************************)
(* Characters.                                                             *)
(***************************************************************************)
HexDigits ==
  {"0", "1", "2", "3", "4", "5", "6", "7", "8", "9",
   "a", "b", "c", "d", "e", "f", "A", "B", "C", "D", "E", "F"}

Whitespace == {" ", "\n", "\t"}

DigitValue(c) ==
  CASE c = "0" -> 0 [] c = "1" -> 1 [] c = "2" -> 2 [] c = "3" -> 3
    [] c = "4" -> 4 [] c = "5" -> 5 [] c = "6" -> 6 [] c = "7" -> 7
    [] c = "8" -> 8 [] c = "9" -> 9
    [] c \in {"a", "A"} -> 10 [] c \in {"b", "B"} -> 11
    [] c \in {"c", "C"} -> 12 [] c \in {"d", "D"} -> 13
    [] c \in {"e", "E"} -> 14 [] c \in {"f", "F"} -> 15

(***************************************************************************)
(* str.strip(): remove leading and trailing whitespace.                    *)
(***************************************************************************)
RECURSIVE LStrip(_)
LStrip(s) ==
  IF Len(s) > 0 /\ s[1] \in Whitespace THEN LStrip(Tail(s)) ELSE s

RECURSIVE RStrip(_)
RStrip(s) ==
  IF Len(s) > 0 /\ s[Len(s)] \in Whitespace
    THEN RStrip(SubSeq(s, 1, Len(s) - 1))
    ELSE s

Strip(s) == RStrip(LStrip(s))

(***************************************************************************)
(* Python ints.  PyLong(hi, lo) is the integer hi * 65536 + lo.            *)
(***************************************************************************)
LimbBase == 65536

PyLong(hi, lo) == [hi |-> hi, lo |-> lo]

PyNeg(x) ==
  IF x.lo = 0 THEN PyLong(-x.hi, 0) ELSE PyLong(-x.hi - 1, LimbBase - x.lo)

\* x >> k for 0 <= k <= 16: floor division by 2^k, as a plain integer
PyShiftRight(x, k) == x.hi * (2 ^ (16 - k)) + (x.lo \div (2 ^ k))

\* bit i of a natural number
Bit(a, i) == (a \div (2 ^ i)) % 2

\* bits i .. i+3 of a & b
NibbleAnd(a, b, i) ==
  (2 ^ i) * (Bit(a, i) * Bit(b, i) + 2 * Bit(a, i + 1) * Bit(b, i + 1)
             + 4 * Bit(a, i + 2) * Bit(b, i + 2)
             + 8 * Bit(a, i + 3) * Bit(b, i + 3))

\* a & b for 0 <= a, b < 2^16
BitAnd(a, b) ==
  NibbleAnd(a, b, 0) + NibbleAnd(a, b, 4) + NibbleAnd(a, b, 8)
    + NibbleAnd(a, b, 12)

\* x & mask for a plain integer x of either sign and 0 <= mask < 2^16
IntAnd(x, mask) == BitAnd(x % LimbBase, mask)

\* x & mask for a Python int x and 0 <= mask < 2^16
PyAnd(x, mask) == BitAnd(x.lo, mask)

(***************************************************************************)
(* int(s, 16): optional surrounding whitespace, optional sign, optional    *)
(* 0x prefix, digits separated by single underscores.  err is ValueError.  *)
(***************************************************************************)
RECURSIVE DigitsWellFormed(_)
DigitsWellFormed(w) ==
  IF Len(w) = 0 THEN TRUE
  ELSE /\ w[1] \in HexDigits \cup {"_"}
       /\ (w[1] = "_" => (Len(w) > 1 /\ w[2] # "_"))
       /\ DigitsWellFormed(Tail(w))

\* the digits of w without the separating underscores
HexOnly(w) == SelectSeq(w, LAMBDA c : c # "_")

\* the i-th digit of ds counted from the right, 0 beyond its left end
DigitFromRight(ds, i) ==
  IF i <= Len(ds) THEN DigitValue(ds[Len(ds) + 1 - i]) ELSE 0

\* the four digits of ds from the i-th from the right on, as one limb
LimbFromRight(ds, i) ==
  DigitFromRight(ds, i) + 16 * DigitFromRight(ds, i + 1)
    + 256 * DigitFromRight(ds, i + 2) + 4096 * DigitFromRight(ds, i + 3)

\* the value of the digits ds: two limbs hold the eight digits that a word
\* of HexInputs or of Segments has at most
LimbsValue(ds) == PyLong(LimbFromRight(ds, 5), LimbFromRight(ds, 1))

DigitsValue(w) == LimbsValue(HexOnly(w))

ValueError == [err |-> TRUE, val |-> PyLong(0, 0)]

\* the digits w after sign and prefix
int16_digits(w, negative) ==
  IF Len(w) > 0 /\ w[1] # "_" /\ DigitsWellFormed(w)
    THEN [err |-> FALSE,
          val |-> IF negative THEN PyNeg(DigitsValue(w))
                              ELSE DigitsValue(w)]
    ELSE ValueError

\* the text v after a 0x prefix: one underscore is allowed here
int16_after_prefix(v, negative) ==
  int16_digits(IF Len(v) > 0 /\ v[1] = "_" THEN Tail(v) ELSE v, negative)

\* the text u after the sign
int16_unsigned(u, negative) ==
  IF Len(u) >= 2 /\ u[1] = "0" /\ u[2] \in {"x", "X"}
    THEN int16_after_prefix(SubSeq(u, 3, Len(u)), negative)
    ELSE int16_digits(u, negative)

\* the text t without surrounding whitespace
int16_stripped(t) ==
  IF Len(t) > 0 /\ t[1] \in {"+", "-"}
    THEN int16_unsigned(Tail(t), t[1] = "-")
    ELSE int16_unsigned(t, FALSE)

int16(s) == int16_stripped(Strip(s))

(***************************************************************************)
(* Python floats as exact decimals with nine fractional digits.            *)
(***************************************************************************)
Nano == 1000000000

Float(i, n) == [int |-> i, nano |-> n]

FloatNeg(x) ==
  IF x.nano = 0 THEN Float(-x.int, 0) ELSE Float(-x.int - 1, Nano - x.nano)

FloatAdd(x, y) ==
  Float(x.int + y.int + ((x.nano + y.nano) \div Nano),
        (x.nano + y.nano) % Nano)

FloatLe(x, y) == x.int < y.int \/ (x.int = y.int /\ x.nano <= y.nano)

FloatGe(x, y) == FloatLe(y, x)

\* whole + upper * 10^-5 + lower * 10^-9, with the carries propagated
FloatCarry(whole, upper, lower) ==
  Float(whole + (upper \div 100000)
              + (((upper % 100000) * 10000 + lower) \div Nano),
        ((upper % 100000) * 10000 + lower) % Nano)

\* n * x for a natural n: the fraction of x is multiplied in two decimal
\* limbs so that every intermediate product stays within 31 bits
FloatTimesNat(n, x) ==
  FloatCarry(n * x.int, n * (x.nano \div 10000), n * (x.nano % 10000))

FloatTimesInt(k, x) ==
  IF k < 0 THEN FloatNeg(FloatTimesNat(-k, x)) ELSE FloatTimesNat(k, x)

\* n / 10.0
DivTen(n) == Float(n \div 10, (n % 10) * 100000000)

\* the number of tenths in a float that has one fractional digit
Tenths(x) == x.int * 10 + (x.nano \div 100000000)

\* mutation: the conversion factor is truncated to 1.94384
KnotsFactorTruncated == 194384 * 1000

\* 1.94384449 * 10^8
KnotsFactorE8 == 194384449

\* x * 1.94384449 for a float x that has one fractional digit
TimesKnotsFactor(x) == FloatTimesInt(Tenths(x), Float(0, KnotsFactorE8))

(***************************************************************************)
(* decode_navis_hex                                                        *)
(***************************************************************************)
Reading(knots, ms, dir, temp, rssi) ==
  [speed_knots |-> knots, speed_ms |-> ms, direction |-> dir,
   temperature |-> temp, rssi |-> rssi]

\* mutation: the length guard admits 7 characters
MinLengthSeven == 8 - 1


MinLength == 8

TempMask == 2047

SpeedShift == 16

\* mutation: the direction field is taken from bit 8
DirectionShiftEight == 7 + 1


DirectionShift == 7

DirectionMask == 511

\* mutation: the rssi field is six bits wide, bit 6 of the low word is lost
RssiMaskSixBits == 127 - 64

RssiMask == 127

\* mutation: the temperature offset is not scaled to tenths
TempOffsetForty == 4 * 10


TempOffset == 400

\* hex_data[:-8]
AllButLastEight(h) == SubSeq(h, 1, Len(h) - 8)

\* hex_data[-8:]
LastEight(h) == SubSeq(h, IF Len(h) > 8 THEN Len(h) - 7 ELSE 1, Len(h))

\* lines 29-39: the conversions and the returned dict
decode_convert(temp_raw, speed_raw, direction_raw, rssi_raw) ==
  Some(Reading(TimesKnotsFactor(DivTen(speed_raw)), DivTen(speed_raw),
               direction_raw, DivTen(temp_raw - TempOffset), rssi_raw))

\* lines 23-26: the bit fields of the two words
decode_fields(MSB, LSB) ==
  decode_convert(PyAnd(MSB, TempMask),
                 PyShiftRight(LSB, SpeedShift),
                 IntAnd(PyShiftRight(LSB, DirectionShift), DirectionMask),
                 PyAnd(LSB, RssiMask))

\* lines 15-41: a ValueError of either int() is answered with None
decode_words(high, low) ==
  IF high.err \/ low.err THEN None ELSE decode_fields(high.val, low.val)

decode_navis_hex(h) ==
  IF Len(h) < MinLength THEN None
  ELSE decode_words(IF Len(h) > 8 THEN int16(AllButLastEight(h))
                                  ELSE [err |-> FALSE, val |-> PyLong(0, 0)],
                    int16(LastEight(h)))

(***************************************************************************)
(* String helpers used by the batch parser: c in s, s.split(c),            *)
(* s.split(c, 1).                                                          *)
(***************************************************************************)
Contains(s, c) == \E i \in 1..Len(s) : s[i] = c

\* the position of the first c in s, 0 when c is absent
IndexOf(s, c) ==
  IF Contains(s, c)
    THEN CHOOSE i \in 1..Len(s) : s[i] = c /\ \A j \in 1..(i - 1) : s[j] # c
    ELSE 0

\* s.split(c, 1): one part when c is absent, two parts otherwise
SplitAt(s, i) ==
  IF i = 0 THEN <<s>> ELSE <<SubSeq(s, 1, i - 1), SubSeq(s, i + 1, Len(s))>>

SplitOnce(s, c) == SplitAt(s, IndexOf(s, c))

RECURSIVE Split(_, _)
SplitFrom(s, c, i) ==
  IF i = 0 THEN <<s>>
  ELSE <<SubSeq(s, 1, i - 1)>> \o Split(SubSeq(s, i + 1, Len(s)), c)

Split(s, c) == SplitFrom(s, c, IndexOf(s, c))

(***************************************************************************)
(* The body of the "for reading in readings" loop, shared by               *)
(* parse_navis_historical_data and get_navis_historical_stats: the hex     *)
(* payload of one segment.  skip: the segment is passed over; raised: the  *)
(* tuple unpacking of hex_part.split(':', 1) fails with ValueError.        *)
(***************************************************************************)
\* interval, hex_data = hex_part.split(':', 1)
\* mutation: the interval is taken for the payload
unpack_interval(fields) ==
  IF Len(fields) # 2
    THEN [skip |-> FALSE, raised |-> TRUE, hex_data |-> <<>>]
    ELSE [skip |-> FALSE, raised |-> FALSE, hex_data |-> fields[1]]


unpack_hex_part(fields) ==
  IF Len(fields) # 2
    THEN [skip |-> FALSE, raised |-> TRUE, hex_data |-> <<>>]
    ELSE [skip |-> FALSE, raised |-> FALSE, hex_data |-> fields[2]]

\* mutation: a segment without ':' is unpacked like any other
extract_hex_data_unguarded(reading) ==
  IF Strip(reading) = <<>>
    THEN [skip |-> TRUE, raised |-> FALSE, hex_data |-> <<>>]
  ELSE IF Contains(reading, ",")
    THEN unpack_hex_part(SplitOnce(SplitOnce(reading, ",")[2], ":"))
  ELSE unpack_hex_part(SplitOnce(reading, ":"))


extract_hex_data(reading) ==
  IF Strip(reading) = <<>> \/ ~Contains(reading, ":")
    THEN [skip |-> TRUE, raised |-> FALSE, hex_data |-> <<>>]
  ELSE IF Contains(reading, ",")
    THEN unpack_hex_part(SplitOnce(SplitOnce(reading, ",")[2], ":"))
  ELSE unpack_hex_part(SplitOnce(reading, ":"))

(***************************************************************************)
(* parse_navis_historical_data                                             *)
(***************************************************************************)
\* lines 121-123: decoded = decode_navis_hex(hex_data); if decoded: append
\* mutation: a decoded reading is put in front of the list
append_decoded_front(acc, d) == IF d # None THEN <<d[1]>> \o acc ELSE acc


append_decoded(acc, d) == IF d # None THEN Append(acc, d[1]) ELSE acc

RECURSIVE parse_readings(_, _)
parse_step(e, rest, acc) ==
  IF e.skip THEN parse_readings(rest, acc)
  ELSE IF e.raised THEN [raised |-> TRUE, data_points |-> <<>>]
  ELSE parse_readings(rest, append_decoded(acc, decode_navis_hex(e.hex_data)))

parse_readings(readings, acc) ==
  IF Len(readings) = 0 THEN [raised |-> FALSE, data_points |-> acc]
  ELSE parse_step(extract_hex_data(Head(readings)), Tail(readings), acc)

parse_navis_historical_data(raw) == parse_readings(Split(raw, "|"), <<>>)

(***************************************************************************)
(* statistics.mean, max, min.  The mean is the exact quotient total / n.   *)
(***************************************************************************)
RECURSIVE FloatSum(_)
FloatSum(xs) ==
  IF Len(xs) = 0 THEN Float(0, 0) ELSE FloatAdd(Head(xs), FloatSum(Tail(xs)))

RECURSIVE IntSum(_)
IntSum(xs) == IF Len(xs) = 0 THEN 0 ELSE Head(xs) + IntSum(Tail(xs))

mean(xs) == [total |-> FloatSum(xs), n |-> Len(xs)]

int_mean(xs) == [total |-> IntSum(xs), n |-> Len(xs)]

RECURSIVE max(_)
FloatMax(x, y) == IF FloatGe(x, y) THEN x ELSE y

FloatMin(x, y) == IF FloatLe(x, y) THEN x ELSE y

\* mutation: the peak is the latest reading
max_latest(xs) == xs[Len(xs)]

\* mutation: the peak is the earliest reading
max_first(xs) == xs[1]


max(xs) == IF Len(xs) = 1 THEN xs[1] ELSE FloatMax(Head(xs), max(Tail(xs)))

RECURSIVE min(_)
\* mutation: the minimum is folded from an initial 0
RECURSIVE min_from_zero(_)
min_from_zero(xs) ==
  IF Len(xs) = 0 THEN Float(0, 0)
  ELSE FloatMin(Head(xs), min_from_zero(Tail(xs)))


\* mutation: the minimum is the earliest reading
min_first(xs) == xs[1]


min(xs) == IF Len(xs) = 1 THEN xs[1] ELSE FloatMin(Head(xs), min(Tail(xs)))

(***************************************************************************)
(* calculate_statistics                                                    *)
(***************************************************************************)
\* mutation: the speed filter admits readings down to -1.0
SpeedValidLoose(v) == FloatGe(v, Float(-1, 0))


SpeedValid(v) == FloatGe(v, Float(0, 0))

\* mutation: every value of the 9-bit direction field is admitted
DirectionValidNineBit(d) == 0 <= d /\ d <= 511


DirectionValid(d) == 0 <= d /\ d <= 360

TemperatureValid(t) == FloatLe(Float(-20, 0), t) /\ FloatLe(t, Float(50, 0))

\* lines 146-163: the stats dict; statistics.mean, max and min of an
\* empty list raise
calculate_stats(speeds_knots, speeds_ms, directions, temps) ==
  IF Len(speeds_ms) = 0 THEN [raised |-> TRUE, stats |-> None]
  ELSE [raised |-> FALSE,
        stats |-> Some(
          [avg_speed_knots |-> mean(speeds_knots),
           avg_speed_ms |-> mean(speeds_ms),
           peak_speed_knots |-> max(speeds_knots),
           peak_speed_ms |-> max(speeds_ms),
           min_speed_knots |-> min(speeds_knots),
           min_speed_ms |-> min(speeds_ms),
           data_points |-> Len(speeds_knots),
           avg_direction |->
             IF Len(directions) > 0 THEN Some(int_mean(directions)) ELSE None,
           avg_temperature |->
             IF Len(temps) > 0 THEN Some(mean(temps)) ELSE None])]

\* lines 136-143: the four filtered lists and the "no valid speed" return
calculate_filtered(speeds_knots, speeds_ms, directions, temps) ==
  IF Len(speeds_knots) = 0 THEN [raised |-> FALSE, stats |-> None]
  ELSE calculate_stats(speeds_knots, speeds_ms, directions, temps)

\* mutation: a reading with an out-of-range direction is dropped whole
calculate_statistics_joint(dps) ==
  IF Len(dps) = 0 THEN [raised |-> FALSE, stats |-> None]
  ELSE calculate_filtered(
         SelectSeq([i \in 1..Len(dps) |->
                      IF DirectionValid(dps[i].direction)
                        THEN dps[i].speed_knots ELSE Float(-1, 0)],
                   SpeedValid),
         SelectSeq([i \in 1..Len(dps) |->
                      IF DirectionValid(dps[i].direction)
                        THEN dps[i].speed_ms ELSE Float(-1, 0)],
                   SpeedValid),
         SelectSeq([i \in 1..Len(dps) |-> dps[i].direction], DirectionValid),
         SelectSeq([i \in 1..Len(dps) |-> dps[i].temperature],
                   TemperatureValid))


calculate_statistics(dps) ==
  IF Len(dps) = 0 THEN [raised |-> FALSE, stats |-> None]
  ELSE calculate_filtered(
         SelectSeq([i \in 1..Len(dps) |-> dps[i].speed_knots], SpeedValid),
         SelectSeq([i \in 1..Len(dps) |-> dps[i].speed_ms], SpeedValid),
         SelectSeq([i \in 1..Len(dps) |-> dps[i].direction], DirectionValid),
         SelectSeq([i \in 1..Len(dps) |-> dps[i].temperature],
                   TemperatureValid))

(***************************************************************************)
(* get_navis_historical_stats, from the response text on.  The result is   *)
(* the pair (avg_speed, peak_speed) or (None, None).                       *)
(***************************************************************************)
\* lines 144-146: if decoded and decoded['speed_knots'] >= 0: append
append_valid(acc, d) ==
  IF d # None /\ FloatGe(d[1].speed_knots, Float(0, 0))
    THEN Append(acc, d[1])
    ELSE acc

RECURSIVE historical_readings(_, _)
historical_step(e, rest, acc) ==
  IF e.skip THEN historical_readings(rest, acc)
  ELSE IF e.raised THEN [raised |-> TRUE, data_points |-> <<>>]
  ELSE historical_readings(rest,
                           append_valid(acc, decode_navis_hex(e.hex_data)))

historical_readings(readings, acc) ==
  IF Len(readings) = 0 THEN [raised |-> FALSE, data_points |-> acc]
  ELSE historical_step(extract_hex_data(Head(readings)), Tail(readings), acc)

\* lines 153-158: speeds, statistics.mean and max
historical_reduce(speeds) == <<Some(mean(speeds)), Some(max(speeds))>>

\* lines 148-161; an exception raised by the loop is answered (None, None)
historical_result(parsed) ==
  IF parsed.raised \/ Len(parsed.data_points) = 0 THEN <<None, None>>
  ELSE historical_reduce([i \in 1..Len(parsed.data_points) |->
                            parsed.data_points[i].speed_knots])

ErrorText == <<"e", "r", "r", "o", "r">>

\* lines 123-128 on content = response.text.strip()
historical_content(content) ==
  IF content = <<>> \/ content = ErrorText THEN <<None, None>>
  ELSE historical_result(historical_readings(Split(content, "|"), <<>>))

get_navis_historical_stats(text) == historical_content(Strip(text))

(***************************************************************************)
(* Inputs.  A decoder input is a high part followed by an 8-character low  *)
(* part, or a string shorter than 8 characters.  A batch is up to          *)
(* MaxSegments segments joined by the record delimiter.                    *)
(***************************************************************************)
MaxSegments == 2

HighParts ==
  {<<>>,
   <<"0">>,
   <<"7", "f", "f">>,
   <<"8", "0", "0">>,
   <<"0", "1", "9", "0">>,
   <<"0", "0", "0", "0", "2", "7", "1", "0">>,
   <<"0", "0", "0", "0", "0", "0", "0", "a">>,
   <<"F", "f", "F", "f", "F", "f", "F", "f">>,
   <<"-", "1">>,
   <<"+", "7">>,
   <<" ", "1">>,
   <<"1", " ">>,
   <<"0", "x", "1">>,
   <<"1", "_", "0">>,
   <<"g">>,
   <<"_", "1">>,
   <<" ">>,
   <<"1", "_", "_", "0">>}

LowParts ==
  {<<"0", "0", "0", "0", "0", "0", "0", "0">>,
   <<"0", "0", "0", "a", "0", "0", "0", "0">>,
   <<"0", "0", "1", "4", "0", "0", "0", "0">>,
   <<"0", "0", "6", "4", "b", "4", "1", "e">>,
   <<"0", "0", "0", "1", "0", "0", "8", "0">>,
   <<"0", "0", "0", "0", "c", "8", "0", "0">>,
   <<"f", "f", "f", "f", "f", "f", "f", "f">>,
   <<"F", "F", "F", "F", "8", "0", "7", "F">>,
   <<"7", "f", "f", "f", "f", "f", "f", "f">>,
   <<"8", "0", "0", "0", "0", "0", "0", "0">>,
   <<"-", "0", "0", "0", "0", "0", "0", "a">>,
   <<"+", "0", "0", "0", "0", "0", "0", "a">>,
   <<" ", "0", "0", "0", "0", "0", "0", "a">>,
   <<"0", "0", "0", "0", "0", "0", "a", "\n">>,
   <<"0", "x", "0", "0", "0", "0", "0", "a">>,
   <<"0", "_", "0", "0", "_", "0", "0", "a">>,
   <<"0", "0", "0", "0", "0", "0", "0", "g">>,
   <<"0", "0", "0", "0", " ", "0", "0", "a">>,
   <<"_", "0", "0", "0", "0", "0", "0", "a">>,
   <<"0", "0", "_", "_", "0", "0", "0", "a">>,
   <<" ", " ", " ", " ", " ", " ", " ", " ">>,
   <<"-", "0", "0", "1", "0", "0", "0", "0">>,
   <<"0", "x", "_", "0", "0", "0", "0", "a">>,
   <<"0", "0", "0", "0", "0", "0", "a", "_">>,
   <<"-", "0", "x", "1", "0", "0", "0", "0">>}

ShortInputs ==
  {<<>>,
   <<"0">>,
   <<"a", "b", "c">>,
   <<"0", "0", "0", "0", "0", "0", "0">>,
   <<"f", "f", "f", "f", "f", "f", "f">>,
   <<"-", "0", "0", "0", "0", "0", "a">>,
   <<" ", " ", " ", " ", " ", " ", " ">>}


HexInputs == {hi \o lo : hi \in HighParts, lo \in LowParts} \cup ShortInputs

Segments ==
  {<<"1", ":", "0", "0", "0", "0", "0", "0", "0", "a", "0", "0", "0", "0", "0", "0", "0", "0">>,
   <<"1", ":", "0", "0", "0", "0", "0", "0", "1", "4", "0", "0", "0", "0", "0", "0", "0", "0">>,
   <<"1", ":", "0", "2", "5", "8", "0", "0", "0", "a", "a", "f", "0", "5">>,
   <<"5", ",", "1", ":", "0", "2", "5", "8", "0", "0", "0", "a", "0", "5", "0", "5">>,
   <<"1", ":", "0", "0", "6", "4", "0", "0", "1", "e", "c", "8", "3", "c">>,
   <<"1", ":", "0", "1", "9", "0", "0", "0", "1", "9", "5", "a", "0", "0">>,
   <<"1", ":", "-", "0", "0", "0", "0", "0", "0", "a">>,
   <<"1", ":", "0", "0", "0", "0", "0", "0", "0", "g">>,
   <<"1", ":", "a", "b", "c">>,
   <<"g", "a", "r", "b", "a", "g", "e">>,
   <<>>,
   <<" ">>,
   <<"1", ":", "0", "0", "0", "0", "0", "0", "0", "a", ",", "5">>,
   <<"7", ",", "2", ":", "0", "0", "0", "0", "0", "0", "0", "a", "0", "0", "0", "0", "0", "0", "0", "0">>,
   <<"1", ":", "0", "0", "0", "0", "0", "0", "0", "a", "0", "0", "0", "0", "0", "0", "0", "0", " ">>}


RECURSIVE Join(_)
Join(segs) ==
  IF Len(segs) = 0 THEN <<>>
  ELSE IF Len(segs) = 1 THEN segs[1]
  ELSE segs[1] \o <<"|">> \o Join(Tail(segs))

SegmentLists == UNION {[1..n -> Segments] : n \in 0..MaxSegments}

Batches == {Join(segs) : segs \in SegmentLists}

(***************************************************************************)
(* test_seaview_weather: the choice between the historical statistics and  *)
(* the instantaneous reading.  The m/s value of a historical speed is the  *)
(* product knots * KNOTS_TO_MS, kept as the pair of its factors.           *)
(***************************************************************************)
\* KNOTS_TO_MS * 10^6
KnotsToMsE6 == 514444

TimesKnotsToMs(knots) == [knots |-> knots, times_e6 |-> KnotsToMsE6]

\* Python truth of an average returned by get_navis_historical_stats:
\* None and 0.0 are false
avg_truthy(avg) == avg # None /\ avg[1].total # Float(0, 0)

\* Python truth of a peak: None and 0.0 are false
peak_truthy(peak) == peak # None /\ peak[1] # Float(0, 0)

\* lines 398-412
seaview_choose(reading, avg_speed_knots, peak_speed_knots) ==
  IF avg_truthy(avg_speed_knots) /\ peak_truthy(peak_speed_knots)
    THEN Some([message |-> "historical",
               final_speed_knots |-> avg_speed_knots[1],
               final_speed_ms |-> TimesKnotsToMs(avg_speed_knots[1]),
               gust_knots |-> peak_speed_knots[1],
               gust_ms |-> TimesKnotsToMs(peak_speed_knots[1]),
               speed_knots |-> reading.speed_knots])
    ELSE Some([message |-> "instantaneous",
               final_speed_knots |-> reading.speed_knots,
               final_speed_ms |-> reading.speed_ms,
               gust_knots |-> reading.speed_knots,
               gust_ms |-> reading.speed_ms,
               speed_knots |-> reading.speed_knots])

\* lines 376-440: nothing is displayed for a payload that is too short or
\* that int() rejects
seaview_decoded(reading, avg_speed_knots, peak_speed_knots) ==
  IF reading = None THEN None
  ELSE seaview_choose(reading[1], avg_speed_knots, peak_speed_knots)

\* lines 377-394: the decode repeated in place; its ValueError is caught at
\* line 439
seaview_live(hex_sensor_data) ==
  IF Len(hex_sensor_data) >= 8
    THEN decode_words(IF Len(hex_sensor_data) > 8
                        THEN int16(AllButLastEight(hex_sensor_data))
                        ELSE [err |-> FALSE, val |-> PyLong(0, 0)],
                      int16(LastEight(hex_sensor_data)))
    ELSE None

seaview_display(hex_sensor_data, avg_speed_knots, peak_speed_knots) ==
  seaview_decoded(seaview_live(hex_sensor_data),
                  avg_speed_knots, peak_speed_knots)

\* the hex payloads of the live response: 3.0 m/s, 0.0 m/s, too short
LiveInputs ==
  {<<"0", "2", "5", "8", "0", "0", "1", "e", "0", "0", "0", "0">>,
   <<"0", "2", "5", "8", "0", "0", "0", "0", "0", "0", "0", "0">>,
   <<"0", "2", "5", "8">>}

(***************************************************************************)
(* main of test_weather_stations.py: the summary of the three results.     *)
(***************************************************************************)
RECURSIVE count_passed(_)
count_passed(rs) ==
  IF Len(rs) = 0 THEN 0
  ELSE (IF Head(rs)[2] THEN 1 ELSE 0) + count_passed(Tail(rs))

\* mutation: one passing station is enough for exit status 0
exit_status_any(n_passed, n_results) == IF n_passed > 0 THEN 0 ELSE 1

\* exit(0 if passed == len(results) else 1)
exit_status(n_passed, n_results) == IF n_passed = n_results THEN 0 ELSE 1

(***************************************************************************)
(* The Navis flows: the requests each one sends in its session.            *)
(***************************************************************************)
ViewPage == "view.php"

QueryPage == "query.php"

\* the flow of every state outside the Navis flows
NoFlow == "none"

LiveComparison == "main"

\* the flows that return when the session page does not answer 200:
\* test_weather_stations.py lines 283-286, navis_historical_parser.py lines
\* 59-62, investigate_navis_advanced.py lines 26-29
CheckedFlows ==
  {"test_seaview_weather", "fetch_navis_historical_data",
   "investigate_navis_endpoints"}

\* the live comparison of navis_historical_parser.main, lines 207-218, calls
\* session.get(session_url, headers=headers) and drops the response
Flows == CheckedFlows \cup {LiveComparison}

\* what session.get does: a response with a status code, or an exception
Responses ==
  {[raised |-> FALSE, status_code |-> 200],
   [raised |-> FALSE, status_code |-> 500],
   [raised |-> TRUE, status_code |-> 0]}

Request(page, response) == [page |-> page, response |-> response]

\* the flow goes on to its query after the session request
session_established(f, response) ==
  /\ ~response.raised
  /\ f \in CheckedFlows => response.status_code = 200

\* the number of addresses of endpoints_to_try that are modelled (14 in
\* investigate_navis_advanced.py lines 41-64)
MaxEndpoints == 2

QueriesSent(log) ==
  Cardinality({i \in 1..Len(log) : log[i].page = QueryPage})

\* whether the flow sends a further query after its n-th one
another_query(f, n, response, more) ==
  CASE f = "investigate_navis_endpoints" -> n < MaxEndpoints
    [] f = "test_seaview_weather" ->
         n = 1 /\ ~response.raised /\ response.status_code = 200 /\ more
    [] OTHER -> FALSE

(***************************************************************************)
(* The state machine: one decoder call on hex_data, or the batch pipeline  *)
(* of navis_historical_parser.main (parse, then calculate) and the         *)
(* aggregation of get_navis_historical_stats on the same raw_data.         *)
(***************************************************************************)
Init ==
  /\ \/ pc = "decode" /\ hex_data \in HexInputs /\ raw_data = <<>>
     \/ pc = "parse" /\ hex_data = <<>> /\ raw_data \in Batches
     \/ pc = "main" /\ hex_data = <<>> /\ raw_data = <<>>
     \/ pc = "session" /\ hex_data = <<>> /\ raw_data = <<>>
  /\ IF pc = "session" THEN flow \in Flows ELSE flow = NoFlow
  /\ sent = <<>>
  /\ decoded = None
  /\ raised = FALSE
  /\ data_points = <<>>
  /\ stats = None
  /\ hist = <<None, None>>
  /\ display = None
  /\ results = <<>>
  /\ passed = 0
  /\ exit_code = None

Decode ==
  /\ pc = "decode"
  /\ decoded' = decode_navis_hex(hex_data)
  /\ pc' = "decoded"
  /\ UNCHANGED <<hex_data, raw_data, raised, data_points, stats, hist,
                 display, results, passed, exit_code, flow, sent>>

Parse ==
  /\ pc = "parse"
  /\ LET r == parse_navis_historical_data(raw_data)
     IN  /\ raised' = r.raised
         /\ data_points' = r.data_points
         /\ pc' = IF r.raised THEN "historical" ELSE "calculate"
  /\ UNCHANGED <<hex_data, decoded, raw_data, stats, hist,
                 display, results, passed, exit_code, flow, sent>>

Calculate ==
  /\ pc = "calculate"
  /\ LET r == calculate_statistics(data_points)
     IN  /\ raised' = r.raised
         /\ stats' = r.stats
  /\ pc' = "historical"
  /\ UNCHANGED <<hex_data, decoded, raw_data, data_points, hist,
                 display, results, passed, exit_code, flow, sent>>

Historical ==
  /\ pc = "historical"
  /\ hist' = get_navis_historical_stats(raw_data)
  /\ pc' = "done"
  /\ UNCHANGED <<hex_data, decoded, raw_data, raised, data_points, stats,
                 display, results, passed, exit_code, flow, sent>>

\* test_seaview_weather, lines 376-410: the live reading is decoded in
\* place, then get_navis_historical_stats (the Historical step) decides
\* between its average and peak and the instantaneous speed
Display ==
  /\ pc = "done"
  /\ \E hex_sensor_data \in LiveInputs :
       display' = seaview_display(hex_sensor_data, hist[1], hist[2])
  /\ pc' = "displayed"
  /\ UNCHANGED <<hex_data, decoded, raw_data, raised, data_points, stats,
                 hist, results, passed, exit_code, flow, sent>>

\* main, lines 581-583: the three station tests; result is the truth value
\* of what the test returned (True, or False or None)
TestBrambles ==
  /\ pc = "main"
  /\ \E result \in BOOLEAN :
       results' = Append(results, <<"Brambles Bank", result>>)
  /\ pc' = "seaview"
  /\ UNCHANGED <<hex_data, decoded, raw_data, raised, data_points, stats,
                 hist, display, passed, exit_code, flow, sent>>

TestSeaview ==
  /\ pc = "seaview"
  /\ \E result \in BOOLEAN :
       results' = Append(results, <<"Seaview", result>>)
  /\ pc' = "lymington"
  /\ UNCHANGED <<hex_data, decoded, raw_data, raised, data_points, stats,
                 hist, display, passed, exit_code, flow, sent>>

TestLymington ==
  /\ pc = "lymington"
  /\ \E result \in BOOLEAN :
       results' = Append(results, <<"Lymington", result>>)
  /\ pc' = "summary"
  /\ UNCHANGED <<hex_data, decoded, raw_data, raised, data_points, stats,
                 hist, display, passed, exit_code, flow, sent>>

\* main, lines 589-604, and exit(0 if success else 1) at lines 606-608
Summary ==
  /\ pc = "summary"
  /\ passed' = count_passed(results)
  /\ exit_code' = Some(exit_status(count_passed(results), Len(results)))
  /\ pc' = "exited"
  /\ UNCHANGED <<hex_data, decoded, raw_data, raised, data_points, stats,
                 hist, display, results, flow, sent>>

\* session.get(session_url, ...): the first request of every Navis flow
SessionGet ==
  /\ pc = "session"
  /\ \E response \in Responses :
       /\ sent' = Append(sent, Request(ViewPage, response))
       /\ pc' = IF session_established(flow, response)
                  THEN "query" ELSE "returned"
  /\ UNCHANGED <<hex_data, decoded, raw_data, raised, data_points, stats,
                 hist, display, results, passed, exit_code, flow>>

\* session.get of a query.php address; more says whether the content of a
\* 200 answer leads test_seaview_weather on to get_navis_historical_stats
QueryGet ==
  /\ pc = "query"
  /\ \E response \in Responses, more \in BOOLEAN :
       /\ sent' = Append(sent, Request(QueryPage, response))
       /\ pc' = IF another_query(flow, QueriesSent(sent) + 1, response, more)
                  THEN "query" ELSE "returned"
  /\ UNCHANGED <<hex_data, decoded, raw_data, raised, data_points, stats,
                 hist, display, results, passed, exit_code, flow>>

Next ==
  \/ SessionGet
  \/ QueryGet
  \/ Decode
  \/ Parse
  \/ Calculate
  \/ Historical
  \/ Display
  \/ TestBrambles
  \/ TestSeaview
  \/ TestLymington
  \/ Summary

Spec == Init /\ [][Next]_vars

(***************************************************************************)
(* Properties of the decoder.                                              *)
(***************************************************************************)
AllHex(s) == \A i \in 1..Len(s) : s[i] \in HexDigits

\* positional value of at most seven hexadecimal digits
RECURSIVE HexValue(_)
HexValue(s) ==
  IF Len(s) = 0 THEN 0
  ELSE 16 * HexValue(SubSeq(s, 1, Len(s) - 1)) + DigitValue(s[Len(s)])

\* the last n characters of s, or all of s when it is shorter
LastChars(s, n) == SubSeq(s, IF Len(s) > n THEN Len(s) - n + 1 ELSE 1, Len(s))

\* The reference fields, read off the digits: the speed is the first four
\* digits of the low word, direction and rssi come from its last four, and
\* the raw temperature from the last three digits of the high word.
RefRawSpeed(h) == HexValue(SubSeq(LastChars(h, 8), 1, 4))

RefDirection(h) == (HexValue(LastChars(h, 4)) \div 128) % 512

RefRssi(h) == HexValue(LastChars(h, 2)) % 128

RefRawTemperature(h) ==
  HexValue(LastChars(SubSeq(h, 1, Len(h) - 8), 3)) % 2048

RefTenth(n) == Float(n \div 10, (n % 10) * 100000000)

\* C1: for every string of hexadecimal digits of length >= 8 the decoder
\* returns a reading whose speed, direction, rssi and temperature equal the
\* reference computation on the high word (all characters but the last 8)
\* and the low word (the last 8 characters).
C1_DecodeMatchesReference ==
  (pc = "decoded" /\ Len(hex_data) >= 8 /\ AllHex(hex_data)) =>
    /\ decoded # None
    /\ decoded[1].speed_ms = RefTenth(RefRawSpeed(hex_data))
    /\ decoded[1].direction = RefDirection(hex_data)
    /\ decoded[1].rssi = RefRssi(hex_data)
    /\ decoded[1].temperature = RefTenth(RefRawTemperature(hex_data) - 400)

\* a 12-digit record with speed 10.0 m/s, direction 360, rssi 30, 0.0 C
C1_Witness ==
  /\ pc = "decoded"
  /\ Len(hex_data) = 12
  /\ AllHex(hex_data)
  /\ decoded # None
  /\ decoded[1].speed_ms = Float(10, 0)
  /\ decoded[1].direction = 360
  /\ decoded[1].rssi = 30
  /\ decoded[1].temperature = Float(0, 0)

\* C2: every input shorter than 8 characters, whatever its characters, is
\* answered with None.
C2_ShortInputIsNone ==
  (pc = "decoded" /\ Len(hex_data) < 8) => decoded = None

\* a 7-character input of hexadecimal digits has been rejected
C2_Witness ==
  /\ pc = "decoded"
  /\ Len(hex_data) = 7
  /\ AllHex(hex_data)
  /\ decoded = None

\* C3: every input of length >= 8 that contains a character that is not a
\* hexadecimal digit is answered with None.
C3_NonHexIsNone ==
  (pc = "decoded" /\ Len(hex_data) >= 8 /\ ~AllHex(hex_data)) =>
    decoded = None

SpecExample ==
  <<"0", "0", "0", "0", "2", "7", "1", "0",
    "0", "0", "0", "0", "0", "0", "0", "0">>

\* C4 as stated: the record 0000271000000000 decodes with high word 0 to
\* temperature -40.0, speed 0.0 (m/s and knots), direction 0 and rssi 0.
C4_ExampleAsStated ==
  (pc = "decoded" /\ hex_data = SpecExample) =>
    /\ int16(AllButLastEight(hex_data)).val = PyLong(0, 0)
    /\ decoded =
         Some(Reading(Float(0, 0), Float(0, 0), 0, Float(-40, 0), 0))

\* C4 amended: the record 0000271000000000 decodes with high word
\* 0x2710 = 10000, raw temperature 10000 & 0x7FF = 1808 and temperature
\* 140.8, speed 0.0 (m/s and knots), direction 0 and rssi 0.
C4_ExampleAmended ==
  (pc = "decoded" /\ hex_data = SpecExample) =>
    /\ int16(AllButLastEight(hex_data)).val = PyLong(0, 10000)
    /\ decoded =
         Some(Reading(Float(0, 0), Float(0, 0), 0,
                      Float(140, 800000000), 0))

\* the example record has been decoded to a reading
C4_Witness == pc = "decoded" /\ hex_data = SpecExample /\ decoded # None

\* t * 194384449 * 10^-9 for t >= 0, by long multiplication in base 1000
RefKnotsOfTenths(t) ==
  LET c == t * 449
      b == t * 384 + (c \div 1000)
      a == t * 194 + (b \div 1000)
  IN  Float(a \div 1000, (a % 1000) * 1000000 + (b % 1000) * 1000 + (c % 1000))

RefKnots(t) ==
  IF t >= 0 THEN RefKnotsOfTenths(t)
  ELSE LET m == RefKnotsOfTenths(-t)
       IN  IF m.nano = 0 THEN Float(-m.int, 0)
           ELSE Float(-m.int - 1, 1000000000 - m.nano)

\* C5: in every reading the decoder returns, speed_knots is speed_ms times
\* 1.94384449, i.e. speed_knots * 10^9 = (speed_ms * 10) * 194384449.
C5_KnotsIsMsTimesFactor ==
  (pc = "decoded" /\ decoded # None) =>
    decoded[1].speed_knots =
      RefKnots(decoded[1].speed_ms.int * 10
               + (decoded[1].speed_ms.nano \div 100000000))

\* the largest speed, 6553.5 m/s, has been converted
C5_Witness ==
  /\ pc = "decoded"
  /\ decoded # None
  /\ decoded[1].speed_ms = Float(6553, 500000000)
  /\ decoded[1].speed_knots = Float(12738, 984865215)

(***************************************************************************)
(* Properties of the batch pipeline.                                       *)
(***************************************************************************)
\* calculate_statistics has returned
Calculated == pc \in {"historical", "done"} /\ ~raised

\* parse_navis_historical_data has just returned or raised
AfterParse == pc = "calculate" \/ (pc = "historical" /\ raised)

RefSegments(text) == Split(text, "|")

\* the hex payload of a segment "interval:hexdata" or
\* "timestamp,interval:hexdata": the text after the first ':'
RefPayload(seg) == SubSeq(seg, IndexOf(seg, ":") + 1, Len(seg))

\* the reading of one segment, None when it has none
RefDecode(seg) ==
  IF Strip(seg) = <<>> \/ ~Contains(seg, ":") THEN None
  ELSE decode_navis_hex(RefPayload(seg))

\* the readings of the segments of a batch, position by position
RECURSIVE RefDecodeAll(_)
RefDecodeAll(segs) ==
  IF Len(segs) = 0 THEN <<>>
  ELSE <<RefDecode(Head(segs))>> \o RefDecodeAll(Tail(segs))

RefReadings(text) == RefDecodeAll(RefSegments(text))

\* a reading with speed >= 0
RefSpeedOk(r) == r # None /\ r[1].speed_ms.int >= 0

\* the positions of the segments that decode to a reading with speed >= 0
RefValid(rr) == {i \in 1..Len(rr) : RefSpeedOk(rr[i])}

NoValidSpeed(dps) == \A i \in 1..Len(dps) : dps[i].speed_ms.int < 0

\* C7: calculate_statistics returns None whenever its list is empty or has
\* no reading with speed >= 0, and a statistics object it returns has
\* data_points >= 1; get_navis_historical_stats returns (None, None) when no
\* segment of its content decodes to a reading with speed >= 0, and
\* otherwise an average over at least one reading.
C7_NoDataWithoutValidSpeed ==
  /\ Calculated =>
       /\ NoValidSpeed(data_points) => stats = None
       /\ stats # None => stats[1].data_points >= 1
  /\ pc = "done" =>
       /\ RefValid(RefReadings(Strip(raw_data))) = {} => hist = <<None, None>>
       /\ hist # <<None, None>> => hist[1] # None /\ hist[1][1].n >= 1

\* two readings, both with negative speed, give no statistics at either site
C7_Witness ==
  /\ pc = "done"
  /\ ~raised
  /\ Len(data_points) = 2
  /\ NoValidSpeed(data_points)
  /\ stats = None
  /\ hist = <<None, None>>

RECURSIVE RefTotalMs(_, _)
RefTotalMs(rr, i) ==
  IF i = 0 THEN Float(0, 0)
  ELSE IF RefSpeedOk(rr[i])
    THEN FloatAdd(RefTotalMs(rr, i - 1), rr[i][1].speed_ms)
  ELSE RefTotalMs(rr, i - 1)

RECURSIVE RefTotalKnots(_, _)
RefTotalKnots(rr, i) ==
  IF i = 0 THEN Float(0, 0)
  ELSE IF RefSpeedOk(rr[i])
    THEN FloatAdd(RefTotalKnots(rr, i - 1), rr[i][1].speed_knots)
  ELSE RefTotalKnots(rr, i - 1)

SpeedMs(r) == r.speed_ms

SpeedKnots(r) == r.speed_knots

\* v is the largest (least) of the valid speeds
RefIsPeak(rr, valid, v, Speed(_)) ==
  /\ \E i \in valid : Speed(rr[i][1]) = v
  /\ \A i \in valid : FloatLe(Speed(rr[i][1]), v)

RefIsMin(rr, valid, v, Speed(_)) ==
  /\ \E i \in valid : Speed(rr[i][1]) = v
  /\ \A i \in valid : FloatLe(v, Speed(rr[i][1]))

ExampleBatch ==
  <<"1", ":", "0", "0", "0", "0", "0", "0", "0", "a",
    "0", "0", "0", "0", "0", "0", "0", "0", "|",
    "1", ":", "0", "0", "0", "0", "0", "0", "1", "4",
    "0", "0", "0", "0", "0", "0", "0", "0">>

\* C8: the statistics of parse followed by calculate have data_points equal
\* to the number of segments whose payload decodes to a reading with speed
\* >= 0, averages equal to the arithmetic means of those speeds (m/s and
\* knots each over their own values), peak their maximum and min their
\* minimum; the example batch of two records yields a count of 2.
C8_StatisticsMatchSegments ==
  /\ (Calculated /\ stats # None) =>
       LET rr == RefReadings(raw_data)
           valid == RefValid(rr)
           st == stats[1]
       IN  /\ st.data_points = Cardinality(valid)
           /\ st.avg_speed_ms =
                [total |-> RefTotalMs(rr, Len(rr)), n |-> Cardinality(valid)]
           /\ st.avg_speed_knots =
                [total |-> RefTotalKnots(rr, Len(rr)),
                 n |-> Cardinality(valid)]
           /\ RefIsPeak(rr, valid, st.peak_speed_ms, SpeedMs)
           /\ RefIsPeak(rr, valid, st.peak_speed_knots, SpeedKnots)
           /\ RefIsMin(rr, valid, st.min_speed_ms, SpeedMs)
           /\ RefIsMin(rr, valid, st.min_speed_knots, SpeedKnots)
  /\ (pc \in {"historical", "done"} /\ raw_data = ExampleBatch) =>
       /\ ~raised
       /\ stats # None
       /\ stats[1].data_points = 2

\* two readings of 3.0 and 1.0 m/s, the larger one first
C8_Witness ==
  /\ Calculated
  /\ Len(data_points) = 2
  /\ data_points[1].speed_ms = Float(3, 0)
  /\ stats # None
  /\ stats[1].data_points = 2
  /\ stats[1].peak_speed_ms = Float(3, 0)
  /\ stats[1].min_speed_ms = Float(1, 0)
  /\ stats[1].avg_speed_ms = [total |-> Float(4, 0), n |-> 2]

\* the mean total / n equals v
MeanIs(m, v) == m.n >= 1 /\ m.total = FloatTimesNat(m.n, v)

AllSpeedsEqual(dps) ==
  /\ Len(dps) >= 1
  /\ dps[1].speed_ms.int >= 0
  /\ \A i \in 1..Len(dps) : dps[i].speed_ms = dps[1].speed_ms

\* C9: for a non-empty list of readings whose speeds all equal the same
\* v >= 0, average, peak and minimum speed all equal v, in m/s and in knots.
C9_IdenticalSpeeds ==
  (Calculated /\ AllSpeedsEqual(data_points)) =>
    /\ stats # None
    /\ MeanIs(stats[1].avg_speed_ms, data_points[1].speed_ms)
    /\ stats[1].peak_speed_ms = data_points[1].speed_ms
    /\ stats[1].min_speed_ms = data_points[1].speed_ms
    /\ MeanIs(stats[1].avg_speed_knots, data_points[1].speed_knots)
    /\ stats[1].peak_speed_knots = data_points[1].speed_knots
    /\ stats[1].min_speed_knots = data_points[1].speed_knots

\* two readings of 1.0 m/s with different directions
C9_Witness ==
  /\ Calculated
  /\ Len(data_points) = 2
  /\ AllSpeedsEqual(data_points)
  /\ data_points[1].speed_ms = Float(1, 0)
  /\ data_points[1].direction # data_points[2].direction
  /\ stats # None
  /\ stats[1].data_points = 2

\* a segment the loop passes over: empty, whitespace only, or without ':'
Skippable(seg) == Strip(seg) = <<>> \/ ~Contains(seg, ":")

NotSkippable(seg) == ~Skippable(seg)

\* C10: segments that are empty, whitespace-only or without ':' are skipped
\* without aborting: the parse of a batch gives the readings (or the
\* exception) that the batch without those segments gives.
C10_SkippedSegmentsChangeNothing ==
  AfterParse =>
    [raised |-> raised, data_points |-> data_points] =
      parse_navis_historical_data(
        Join(SelectSeq(RefSegments(raw_data), NotSkippable)))

\* a segment without ':' comes first and the well-formed segment after it
\* has contributed its reading
C10_Witness ==
  /\ pc = "calculate"
  /\ ~raised
  /\ Len(RefSegments(raw_data)) = 2
  /\ ~Contains(RefSegments(raw_data)[1], ":")
  /\ Strip(RefSegments(raw_data)[1]) # <<>>
  /\ Len(data_points) = 1
  /\ <<data_points[1]>> = RefDecode(RefSegments(raw_data)[2])

\* the batch has a segment that, taken alone, gives a reading with speed >= 0
HasUsableSegment(text) == RefValid(RefReadings(text)) # {}

\* C11: whatever the arrangement of ',' and ':' in its segments, parsing a
\* batch never raises, and a batch with a usable segment gives that segment's
\* reading to the statistics: parse returns at least one reading and
\* get_navis_historical_stats does not answer (None, None).
C11_MalformedSegmentOnlyExcluded ==
  /\ AfterParse =>
       /\ ~raised
       /\ HasUsableSegment(raw_data) => Len(data_points) >= 1
  /\ pc = "done" =>
       (HasUsableSegment(Strip(raw_data)) => hist # <<None, None>>)

\* the speed-valid readings of a list, whatever their other fields
SpeedOk(r) == r.speed_ms.int >= 0

SpeedsMsOf(dps) == [i \in 1..Len(dps) |-> dps[i].speed_ms]

SpeedsKnotsOf(dps) == [i \in 1..Len(dps) |-> dps[i].speed_knots]

DirectionOutOfRange(r) == r.direction < 0 \/ r.direction > 360

TemperatureOutOfRange(r) ==
  \/ r.temperature.int < -20
  \/ r.temperature.int > 50
  \/ (r.temperature.int = 50 /\ r.temperature.nano > 0)

\* C12: the speed statistics are taken over every reading with speed >= 0,
\* also over those whose direction is outside [0, 360] or whose temperature
\* is outside [-20, 50]; such a reading is left out of the direction
\* (temperature) mean only.
C12_FieldsFilteredIndependently ==
  (Calculated /\ stats # None) =>
    /\ stats[1].data_points = Len(SelectSeq(data_points, SpeedOk))
    /\ stats[1].avg_speed_ms = mean(SpeedsMsOf(SelectSeq(data_points, SpeedOk)))
    /\ stats[1].avg_speed_knots =
         mean(SpeedsKnotsOf(SelectSeq(data_points, SpeedOk)))
    /\ \A i \in 1..Len(data_points) :
         SpeedOk(data_points[i]) =>
           /\ FloatLe(data_points[i].speed_ms, stats[1].peak_speed_ms)
           /\ FloatLe(stats[1].min_speed_ms, data_points[i].speed_ms)
           /\ FloatLe(data_points[i].speed_knots, stats[1].peak_speed_knots)
           /\ FloatLe(stats[1].min_speed_knots, data_points[i].speed_knots)
    /\ stats[1].avg_direction # None =>
         stats[1].avg_direction[1].n =
           Cardinality({i \in 1..Len(data_points) :
                          ~DirectionOutOfRange(data_points[i])})
    /\ stats[1].avg_temperature # None =>
         stats[1].avg_temperature[1].n =
           Cardinality({i \in 1..Len(data_points) :
                          ~TemperatureOutOfRange(data_points[i])})

\* a reading of 3.0 m/s with direction 400 and temperature -30.0 is the
\* peak of two readings and is in neither the direction nor the temperature
\* mean
C12_Witness ==
  /\ Calculated
  /\ Len(data_points) = 2
  /\ \E i \in 1..2 :
       /\ data_points[i].direction = 400
       /\ data_points[i].temperature = Float(-30, 0)
       /\ data_points[i].speed_ms = Float(3, 0)
  /\ stats # None
  /\ stats[1].data_points = 2
  /\ stats[1].peak_speed_ms = Float(3, 0)
  /\ stats[1].avg_direction # None
  /\ stats[1].avg_direction[1].n = 1
  /\ stats[1].avg_temperature # None
  /\ stats[1].avg_temperature[1].n = 1

\* the readings of the segments, each parsed alone, one after the other
RECURSIVE RefParsedInOrder(_)
RefParsedInOrder(segs) ==
  IF Len(segs) = 0 THEN <<>>
  ELSE parse_navis_historical_data(Head(segs)).data_points
         \o RefParsedInOrder(Tail(segs))

\* C13: the list parse_navis_historical_data returns is made of the readings
\* of its segments in their left-to-right order: it is the concatenation of
\* what each segment gives when parsed alone, so no reading is duplicated,
\* dropped or moved.
C13_ParsePreservesOrder ==
  pc = "calculate" =>
    data_points = RefParsedInOrder(RefSegments(raw_data))

\* two segments with different readings, returned first segment first
C13_Witness ==
  /\ pc = "calculate"
  /\ Len(RefSegments(raw_data)) = 2
  /\ Len(data_points) = 2
  /\ data_points[1] # data_points[2]
  /\ <<data_points[1]>> = RefDecode(RefSegments(raw_data)[1])
  /\ <<data_points[2]>> = RefDecode(RefSegments(raw_data)[2])

\* the rearrangements of the positions 1..n
Rearrangements(n) ==
  {f \in [1..n -> 1..n] : \A i, j \in 1..n : f[i] = f[j] => i = j}

Rearranged(dps, f) == [i \in 1..Len(dps) |-> dps[f[i]]]

\* C14: calculate_statistics gives the same result (None or the same
\* statistics, field by field) on every rearrangement of its list.
C14_AggregationOrderIndependent ==
  Calculated =>
    \A f \in Rearrangements(Len(data_points)) :
      calculate_statistics(Rearranged(data_points, f)) =
        [raised |-> raised, stats |-> stats]

\* two readings with different speeds have been aggregated, so the list has
\* a rearrangement that differs from it
C14_Witness ==
  /\ Calculated
  /\ Len(data_points) = 2
  /\ data_points[1].speed_ms # data_points[2].speed_ms
  /\ SpeedOk(data_points[1])
  /\ SpeedOk(data_points[2])
  /\ stats # None
  /\ stats[1].peak_speed_ms # stats[1].min_speed_ms
  /\ \E f \in Rearrangements(2) : Rearranged(data_points, f) # data_points

DecimalDigits == {"0", "1", "2", "3", "4", "5", "6", "7", "8", "9"}

IsNumber(s) == Len(s) >= 1 /\ \A i \in 1..Len(s) : s[i] \in DecimalDigits

\* the position of the last ':' of a segment that has one
LastColon(seg) ==
  CHOOSE i \in 1..Len(seg) :
    seg[i] = ":" /\ \A j \in (i + 1)..Len(seg) : seg[j] # ":"

ShapedPayload(seg) == SubSeq(seg, LastColon(seg) + 1, Len(seg))

ShapedPrefix(seg) == SubSeq(seg, 1, LastColon(seg) - 1)

\* "i" or "t,i" for numbers t and i
IsIntervalPrefix(p) ==
  \/ IsNumber(p)
  \/ \E k \in 1..Len(p) :
       /\ p[k] = ","
       /\ IsNumber(SubSeq(p, 1, k - 1))
       /\ IsNumber(SubSeq(p, k + 1, Len(p)))

\* a segment "i:h" or "t,i:h" with a payload h of hexadecimal digits
IsShaped(seg) ==
  /\ Contains(seg, ":")
  /\ AllHex(ShapedPayload(seg))
  /\ IsIntervalPrefix(ShapedPrefix(seg))

RECURSIVE RefShapedReadings(_)
RefShapedReadings(segs) ==
  IF Len(segs) = 0 THEN <<>>
  ELSE decode_navis_hex(ShapedPayload(Head(segs)))
         \o RefShapedReadings(Tail(segs))

AllShaped(segs) == \A i \in 1..Len(segs) : IsShaped(segs[i])

\* C15: a batch of segments of the shapes "i:h" and "t,i:h" is parsed without
\* an exception, at both call sites, and each segment gives the reading of
\* its payload h alone, whatever t and i are.
C15_BothShapesEquivalent ==
  /\ (AfterParse /\ AllShaped(RefSegments(raw_data))) =>
       /\ ~raised
       /\ data_points = RefShapedReadings(RefSegments(raw_data))
  /\ (pc = "done" /\ AllShaped(RefSegments(raw_data))) =>
       (hist = <<None, None>> <=>
          RefShapedReadings(RefSegments(raw_data)) = <<>>)

\* the same payload once as "i:h" and once as "t,i:h", with different
\* intervals, has given the same reading twice
C15_Witness ==
  /\ pc = "calculate"
  /\ Len(RefSegments(raw_data)) = 2
  /\ AllShaped(RefSegments(raw_data))
  /\ ~Contains(RefSegments(raw_data)[1], ",")
  /\ Contains(RefSegments(raw_data)[2], ",")
  /\ ShapedPayload(RefSegments(raw_data)[1]) =
       ShapedPayload(RefSegments(raw_data)[2])
  /\ ShapedPrefix(RefSegments(raw_data)[1]) # <<"2">>
  /\ Len(data_points) = 2
  /\ data_points[1] = data_points[2]

StripEach(segs) == [i \in 1..Len(segs) |-> Strip(segs[i])]

\* C16: every segment is trimmed before its payload is extracted: a batch
\* gives the readings (or the exception) that the batch of its trimmed
\* segments gives.
C16_SegmentsTrimmed ==
  AfterParse =>
    [raised |-> raised, data_points |-> data_points] =
      parse_navis_historical_data(Join(StripEach(RefSegments(raw_data))))

\* the sum of the directions within [0, 360] among the first i readings
RECURSIVE RefDirectionTotal(_, _)
RefDirectionTotal(dps, i) ==
  IF i = 0 THEN 0
  ELSE IF DirectionOutOfRange(dps[i]) THEN RefDirectionTotal(dps, i - 1)
  ELSE RefDirectionTotal(dps, i - 1) + dps[i].direction

\* the sum of the temperatures within [-20, 50] among the first i readings
RECURSIVE RefTemperatureTotal(_, _)
RefTemperatureTotal(dps, i) ==
  IF i = 0 THEN Float(0, 0)
  ELSE IF TemperatureOutOfRange(dps[i]) THEN RefTemperatureTotal(dps, i - 1)
  ELSE FloatAdd(RefTemperatureTotal(dps, i - 1), dps[i].temperature)

DirectionsInRange(dps) ==
  {i \in 1..Len(dps) : ~DirectionOutOfRange(dps[i])}

TemperaturesInRange(dps) ==
  {i \in 1..Len(dps) : ~TemperatureOutOfRange(dps[i])}

\* C17: in a statistics object avg_direction is present exactly when some
\* reading has a direction within [0, 360] and is then the arithmetic mean
\* (sum over count) of those directions, so that 350 and 10 average to 180;
\* avg_temperature is present exactly when some reading has a temperature
\* within [-20, 50] and is then the arithmetic mean of those temperatures.
C17_OptionalMeans ==
  (Calculated /\ stats # None) =>
    /\ stats[1].avg_direction =
         IF DirectionsInRange(data_points) = {} THEN None
         ELSE Some([total |-> RefDirectionTotal(data_points, Len(data_points)),
                    n |-> Cardinality(DirectionsInRange(data_points))])
    /\ stats[1].avg_temperature =
         IF TemperaturesInRange(data_points) = {} THEN None
         ELSE Some([total |->
                      RefTemperatureTotal(data_points, Len(data_points)),
                    n |-> Cardinality(TemperaturesInRange(data_points))])

\* directions 350 and 10 have been averaged to 360 / 2 = 180
C17_Witness ==
  /\ Calculated
  /\ Len(data_points) = 2
  /\ data_points[1].direction = 350
  /\ data_points[2].direction = 10
  /\ stats # None
  /\ stats[1].avg_direction = Some([total |-> 360, n |-> 2])
  /\ stats[1].avg_temperature = Some([total |-> Float(40, 0), n |-> 2])

(***************************************************************************)
(* The display of test_seaview_weather and the runner.                     *)
(***************************************************************************)
Displayed == pc = "displayed" /\ display # None

HistoricalShown ==
  /\ display[1].message = "historical"
  /\ display[1].final_speed_knots = hist[1][1]
  /\ display[1].gust_knots = hist[2][1]

InstantaneousShown ==
  /\ display[1].message = "instantaneous"
  /\ display[1].final_speed_knots = display[1].speed_knots
  /\ display[1].gust_knots = display[1].speed_knots

\* C18: whenever get_navis_historical_stats returned statistics the displayed
\* speed and gust are its average and peak; the instantaneous reading is
\* displayed only when it returned (None, None)
C18_HistoricalShownWhenAvailable ==
  Displayed =>
    IF hist = <<None, None>> THEN InstantaneousShown ELSE HistoricalShown

\* the parse-and-reduce part of get_navis_historical_stats on the raw batch
HistoricalPart == historical_content(raw_data)

\* calculate_statistics(parse_navis_historical_data(raw)) returned None
OtherYieldsNone == ~raised /\ stats = None

\* C19: on every raw batch the parse-and-reduce part of
\* get_navis_historical_stats yields (None, None) exactly when
\* calculate_statistics(parse_navis_historical_data(raw)) yields None, and
\* otherwise its average and peak equal avg_speed_knots and peak_speed_knots
C19_CallSitesAgree ==
  pc = "done" =>
    /\ (HistoricalPart = <<None, None>>) <=> OtherYieldsNone
    /\ HistoricalPart # <<None, None>> =>
         /\ HistoricalPart[1][1] = stats[1].avg_speed_knots
         /\ HistoricalPart[2][1] = stats[1].peak_speed_knots

StationsOf(rs) == [i \in 1..Len(rs) |-> rs[i][1]]

Truthy(rs) == {i \in 1..Len(rs) : rs[i][2]}

StationOrder == <<"Brambles Bank", "Seaview", "Lymington">>

\* the tests that have returned when control is at each point of main
InvokedAt(p) ==
  CASE p = "main" -> 0
    [] p = "seaview" -> 1
    [] p = "lymington" -> 2
    [] OTHER -> 3

RunnerStates == {"main", "seaview", "lymington", "summary", "exited"}

\* C20: main runs the three station tests once each in the order Brambles
\* Bank, Seaview, Lymington whatever the earlier tests returned; the passed
\* count is the number of truthy results and the exit status is 0 exactly
\* when all three were truthy
C20_RunnerOrderCountExit ==
  pc \in RunnerStates =>
    /\ StationsOf(results) = SubSeq(StationOrder, 1, InvokedAt(pc))
    /\ pc = "exited" =>
         /\ passed = Cardinality(Truthy(results))
         /\ exit_code \in {Some(0), Some(1)}
         /\ exit_code = Some(0) <=> Truthy(results) = {1, 2, 3}
    /\ pc # "exited" => exit_code = None

\* the first test failed, the later ones still ran, two passed, status 1
C20_Witness ==
  /\ pc = "exited"
  /\ results = <<<<"Brambles Bank", FALSE>>, <<"Seaview", TRUE>>,
                 <<"Lymington", TRUE>>>>
  /\ passed = 2
  /\ exit_code = Some(1)

(***************************************************************************)
(* The session discipline of the Navis flows.                              *)
(***************************************************************************)
SessionAnswered200(log, i) ==
  \E j \in 1..(i - 1) :
    /\ log[j].page = ViewPage
    /\ ~log[j].response.raised
    /\ log[j].response.status_code = 200

\* C21: in every Navis flow a query.php request is sent only after view.php
\* was requested in the same session and answered 200
C21_QueryOnlyAfterSession200 ==
  \A i \in 1..Len(sent) :
    sent[i].page = QueryPage => SessionAnswered200(sent, i)

(***************************************************************************)
(* The field ranges and the bit layout of a decoded reading.               *)
(***************************************************************************)
DecodedReading == pc = "decoded" /\ decoded # None

\* C22: every reading decode_navis_hex returns has speed_ms >= 0 with raw
\* speed in 0..65535, direction in 0..511, rssi in 0..127 and temperature in
\* [-40.0, 164.7]
C22_FieldRanges ==
  DecodedReading =>
    /\ Tenths(decoded[1].speed_ms) \in 0..65535
    /\ decoded[1].direction \in 0..511
    /\ decoded[1].rssi \in 0..127
    /\ FloatLe(Float(-40, 0), decoded[1].temperature)
    /\ FloatLe(decoded[1].temperature, Float(164, 700000000))

\* the records of the model: hexadecimal digits only, a full low word
HexRecords == {h \in HexInputs : Len(h) >= 8 /\ AllHex(h)}

\* the low word as its two 16-bit halves, read off the digits
LowWordHalves(h) ==
  <<HexValue(SubSeq(LastChars(h, 8), 1, 4)), HexValue(LastChars(h, 4))>>

\* bits 0-10 of the high word, read off the digits
HighWordLowBits(h) ==
  HexValue(LastChars(SubSeq(h, 1, Len(h) - 8), 3)) % 2048

LowTriple(r) == <<Tenths(r.speed_ms), r.direction, r.rssi>>

\* C23: the low word L of a record is rawSpeed * 65536 + direction * 128 +
\* rssi (stated on its 16-bit halves), so records with different low words
\* decode to different (speed, direction, rssi) triples, and records that
\* differ only in bits 11 and above of the high word decode to identical
\* readings
C23_LowWordPartitioned ==
  (pc = "decoded" /\ hex_data \in HexRecords) =>
    /\ decoded # None
    /\ LowWordHalves(hex_data)[1] = Tenths(decoded[1].speed_ms)
    /\ LowWordHalves(hex_data)[2] =
         decoded[1].direction * 128 + decoded[1].rssi
    /\ decoded[1].rssi \in 0..127
    /\ \A other \in HexRecords :
         /\ LowWordHalves(other) # LowWordHalves(hex_data) =>
              LowTriple(decode_navis_hex(other)[1]) # LowTriple(decoded[1])
         /\ (/\ LowWordHalves(other) = LowWordHalves(hex_data)
             /\ HighWordLowBits(other) = HighWordLowBits(hex_data)) =>
              decode_navis_hex(other) = decoded

\* the record FfFfFfFf0064b41e: 10.0 m/s, direction 360, rssi 30, and the
\* temperature of the high word 7ff
C23_Witness ==
  /\ pc = "decoded"
  /\ hex_data = <<"F", "f", "F", "f", "F", "f", "F", "f",
                  "0", "0", "6", "4", "b", "4", "1", "e">>
  /\ decoded # None
  /\ LowTriple(decoded[1]) = <<100, 360, 30>>
  /\ decoded = decode_navis_hex(<<"7", "f", "f",
                                  "0", "0", "6", "4", "b", "4", "1", "e">>)

(***************************************************************************)
(* The ordering of the speed statistics.                                   *)
(***************************************************************************)
\* lo <= total / n <= hi, compared as lo * n <= total <= hi * n
MeanBetween(lo, m, hi) ==
  /\ m.n >= 1
  /\ FloatLe(FloatTimesNat(m.n, lo), m.total)
  /\ FloatLe(m.total, FloatTimesNat(m.n, hi))

KnotsSelected(dps) == {i \in 1..Len(dps) : SpeedValid(dps[i].speed_knots)}

MsSelected(dps) == {i \in 1..Len(dps) : SpeedValid(dps[i].speed_ms)}

\* C24: every statistics object has min <= avg <= peak in m/s and in knots,
\* both speed filters select the same readings, and data_points is at most
\* the number of readings passed in
C24_StatisticsOrdered ==
  (Calculated /\ stats # None) =>
    /\ MeanBetween(stats[1].min_speed_ms, stats[1].avg_speed_ms,
                   stats[1].peak_speed_ms)
    /\ MeanBetween(stats[1].min_speed_knots, stats[1].avg_speed_knots,
                   stats[1].peak_speed_knots)
    /\ KnotsSelected(data_points) = MsSelected(data_points)
    /\ stats[1].avg_speed_knots.n = Cardinality(KnotsSelected(data_points))
    /\ stats[1].avg_speed_ms.n = Cardinality(MsSelected(data_points))
    /\ stats[1].data_points = Cardinality(KnotsSelected(data_points))
    /\ stats[1].data_points <= Len(data_points)

\* readings of 1.0 and 3.0 m/s in this order: min 1.0 < avg 2.0 < peak 3.0
C24_Witness ==
  /\ Calculated
  /\ stats # None
  /\ Len(data_points) = 2
  /\ data_points[1].speed_ms = Float(1, 0)
  /\ data_points[2].speed_ms = Float(3, 0)
  /\ stats[1].min_speed_ms = Float(1, 0)
  /\ stats[1].avg_speed_ms = [total |-> Float(4, 0), n |-> 2]
  /\ stats[1].peak_speed_ms = Float(3, 0)

====
